---- MODULE Spec2Model ----
(***************************************************************************)
(* Model of Scraper_Borsa/Scraper_Borsa_Script.py: the batch download      *)
(* pipeline (constituent lookup, batch planning, download with retry,      *)
(* per-batch throttling, file output).                                     *)
(*                                                                         *)
(* Conventions.  A ticker is a sequence of one-character strings, so that  *)
(* str.replace can be modelled character by character.  A data frame is a  *)
(* sequence of rows; a missing value is NaN (symbols) or NaNClose (cells). *)
(* The provider (yfinance) is an opaque collaborator: each of its answers  *)
(* is a nondeterministic choice.  The filesystem is taken to be reliable:  *)
(* open() and to_csv() do not raise.                                       *)
(***************************************************************************)
EXTENDS Integers, Sequences, FiniteSets, TLC

(* ---------------------------- bounds ----------------------------------- *)
\* longest Symbol column the constituents provider answers with
MaxSymbols == 3
\* largest --batch-size tried
MaxBatchSize == 3

(* ------------------------- program constants --------------------------- *)
\* stop_after_attempt(5)
MAX_ATTEMPTS == 5
\* wait_exponential(multiplier=2, min=5, max=120)
WAIT_MULTIPLIER == 2
WAIT_MIN == 5
WAIT_MAX == 120
\* random.uniform(1, 3)
THROTTLE_MIN == 1
THROTTLE_MAX == 3

\* the fallback list of get_index_constituents
FALLBACK ==
    << <<"E","N","I",".","M","I">>,
       <<"E","N","E","L",".","M","I">>,
       <<"I","S","P",".","M","I">>,
       <<"U","C","G",".","M","I">>,
       <<"L","D","O",".","M","I">>,
       <<"S","T","L","A","M",".","M","I">> >>

(* --------------------------- input domains ----------------------------- *)
\* a missing entry of the provider's Symbol column
NaN == <<"NaN">>
\* a missing cell of a price row (prices themselves are non-negative)
NaNClose == -1

\* symbols the constituents provider may list
Symbols == { <<"A",".","M">>, <<"A","_","M">>, <<"B">> }

\* --batch-size is type=int: any integer parses, the default is 5.  Size 1
\* is left out: every batch is then a single-ticker batch, which the last
\* batch of an odd-length list already is
BatchSizes == {-1, 0} \cup (2 .. MaxBatchSize)

SeqsUpTo(S, n) == UNION { [1..k -> S] : k \in 0..n }

\* what idx.constituents can be: an exception, None, or a DataFrame with or
\* without a Symbol column
ConstituentAnswers ==
    { [kind |-> "raise", hasSymbol |-> FALSE, Symbol |-> <<>>],
      [kind |-> "None", hasSymbol |-> FALSE, Symbol |-> <<>>],
      [kind |-> "DataFrame", hasSymbol |-> FALSE, Symbol |-> <<>>] }
    \cup { [kind |-> "DataFrame", hasSymbol |-> TRUE, Symbol |-> s] :
              s \in SeqsUpTo(Symbols \cup {NaN}, MaxSymbols) }

\* the answer is a local of get_index_constituents; this is its value once
\* the function has returned
NoAnswer == [kind |-> "gone", hasSymbol |-> FALSE, Symbol |-> <<>>]

(* ------------------------- pure helpers -------------------------------- *)
Min(a, b) == IF a <= b THEN a ELSE b
Max(a, b) == IF a >= b THEN a ELSE b

\* Series.dropna() on the Symbol column
DropNaSymbols(col) == SelectSeq(col, LAMBDA s : s # NaN)

\* the de-duplication keeping the last occurrence of each symbol
RECURSIVE UniqueKeepsLast(_)
UniqueKeepsLast(col) ==
    IF col = <<>> THEN <<>>
    ELSE LET rest == UniqueKeepsLast(Tail(col))
         IN  IF \E i \in 1..Len(rest) : rest[i] = Head(col)
             THEN rest
             ELSE <<Head(col)>> \o rest

\* Series.unique(): first occurrences, in order
RECURSIVE Unique(_)
Unique(col) ==
    IF col = <<>> THEN <<>>
    ELSE LET init == Unique(SubSeq(col, 1, Len(col) - 1))
             last == col[Len(col)]
         IN  IF \E i \in 1..Len(init) : init[i] = last
             THEN init
             ELSE Append(init, last)

\* get_index_constituents, given what the provider answered
get_index_constituents(ans) ==
    IF ans.kind = "DataFrame" /\ ans.hasSymbol
    THEN Unique(DropNaSymbols(ans.Symbol))
    ELSE FALLBACK

\* range(start, stop, step) for step # 0, as a sequence
RECURSIVE Range(_, _, _)
Range(start, stop, step) ==
    IF (step > 0 /\ start >= stop) \/ (step < 0 /\ start <= stop)
    THEN <<>>
    ELSE <<start>> \o Range(start + step, stop, step)

\* the slice with its end taken one too early
SliceShort(lst, i, j) == SubSeq(lst, i + 1, Min(j - 1, Len(lst)))

\* lst[i:j] for 0 <= i <= j (0-based, end exclusive, clamped to the list)
Slice(lst, i, j) == SubSeq(lst, i + 1, Min(j, Len(lst)))

\* [tickers[i:i + B] for i in range(0, len(tickers), B)]   (B # 0)
Batches(T, B) ==
    LET starts == Range(0, Len(T), B)
    IN  [k \in 1..Len(starts) |-> Slice(T, starts[k], starts[k] + B)]

\* the concatenation with the later tables first
RECURSIVE ConcatReversed(_)
ConcatReversed(ss) ==
    IF ss = <<>> THEN <<>> ELSE ConcatReversed(Tail(ss)) \o Head(ss)

\* pd.concat(rows, ignore_index=True): the tables one after the other
RECURSIVE Concat(_)
Concat(ss) ==
    IF ss = <<>> THEN <<>> ELSE Head(ss) \o Concat(Tail(ss))

(* ---------------------- download_batch helpers ------------------------- *)
\* price frames the provider may hold for one ticker: no rows at all, only
\* rows with missing cells, or real rows with a missing one in between
F_empty == <<>>
F_missing == << [Date |-> 1, Close |-> NaNClose] >>
F_data == << [Date |-> 1, Close |-> 10],
             [Date |-> 2, Close |-> NaNClose],
             [Date |-> 3, Close |-> 20] >>
Frames == {F_empty, F_missing, F_data}

\* what df[t] does for one ticker: KeyError (ok = FALSE) or a frame
TickerAnswers ==
    { [ok |-> FALSE, frame |-> <<>>] } \cup { [ok |-> TRUE, frame |-> f] : f \in Frames }

\* what yf.download can do for a batch: raise, answer with per-ticker
\* (MultiIndex) columns, or, for a single ticker, with flat columns
DownloadRaise == [kind |-> "raise", frames |-> <<>>]
DownloadAnswers(batch) ==
    { [kind |-> "multi", frames |-> fs] : fs \in [1..Len(batch) -> TickerAnswers] }
    \cup (IF Len(batch) = 1
          THEN { [kind |-> "flat", frames |-> << [ok |-> TRUE, frame |-> f] >>] : f \in Frames }
          ELSE {})

\* DataFrame.dropna(): rows with a missing cell go
DropNa(frame) == SelectSeq(frame, LAMBDA r : r.Close # NaNClose)

\* reset_index() and dft["Ticker"] = t: every row gets the ticker column
TagTicker(frame, t) ==
    [i \in 1..Len(frame) |->
        [Date |-> frame[i].Date, Close |-> frame[i].Close, Ticker |-> t]]

ErroreTicker(t) == [kind |-> "Errore", tickers |-> <<t>>]
ErroreBatch(batch) == [kind |-> "Errore batch", tickers |-> batch]

\* the loop without its inner try: the first failing ticker ends it
RECURSIVE ExtractMultiBreaks(_, _, _)
ExtractMultiBreaks(batch, df, i) ==
    IF i > Len(batch) THEN [results |-> <<>>, log |-> <<>>]
    ELSE LET restOf == ExtractMultiBreaks(batch, df, i + 1)
         IN  IF df.frames[i].ok
             THEN [results |-> <<TagTicker(DropNa(df.frames[i].frame), batch[i])>>
                                  \o restOf.results,
                   log |-> restOf.log]
             ELSE [results |-> <<>>, log |-> <<ErroreTicker(batch[i])>>]

\* the loop skipping and logging the tickers left without rows
RECURSIVE ExtractMultiSkipsEmpty(_, _, _)
ExtractMultiSkipsEmpty(batch, df, i) ==
    IF i > Len(batch) THEN [results |-> <<>>, log |-> <<>>]
    ELSE LET restOf == ExtractMultiSkipsEmpty(batch, df, i + 1)
         IN  IF df.frames[i].ok /\ DropNa(df.frames[i].frame) # <<>>
             THEN [results |-> <<TagTicker(DropNa(df.frames[i].frame), batch[i])>>
                                  \o restOf.results,
                   log |-> restOf.log]
             ELSE [results |-> restOf.results,
                   log |-> <<ErroreTicker(batch[i])>> \o restOf.log]

\* the for loop of the MultiIndex branch, lines 47-54, over batch[i..]
RECURSIVE ExtractMulti(_, _, _)
ExtractMulti(batch, df, i) ==
    IF i > Len(batch) THEN [results |-> <<>>, log |-> <<>>]
    ELSE LET restOf == ExtractMulti(batch, df, i + 1)
         IN  IF df.frames[i].ok
             THEN [results |-> <<TagTicker(DropNa(df.frames[i].frame), batch[i])>>
                                  \o restOf.results,
                   log |-> restOf.log]
             ELSE [results |-> restOf.results,
                   log |-> <<ErroreTicker(batch[i])>> \o restOf.log]

\* the body with a flat branch that drops a ticker left without rows
DownloadBodyFlatSkipsEmpty(batch, df) ==
    IF df.kind = "multi"
    THEN ExtractMulti(batch, df, 1)
    ELSE [results |-> IF DropNa(df.frames[1].frame) = <<>>
                      THEN <<>>
                      ELSE <<TagTicker(DropNa(df.frames[1].frame), batch[1])>>,
          log |-> <<>>]

\* the body of download_batch once yf.download has answered, lines 44-60:
\* the list returned and the lines appended to errors.log
DownloadBody(batch, df) ==
    IF df.kind = "multi"
    THEN ExtractMulti(batch, df, 1)
    ELSE [results |-> <<TagTicker(DropNa(df.frames[1].frame), batch[1])>>,
          log |-> <<>>]

\* str(e) of what yf.download may raise, word by word
ERR_429 == <<"429", "Too Many Requests">>
ERR_LIMIT == <<"Rate Limit", "exceeded">>
ERR_OTHER == <<"Connection", "timed out">>
DownloadErrors == {ERR_429, ERR_LIMIT, ERR_OTHER}
NoError == <<>>

\* str.lower(), on the words that occur
LowerWord(w) ==
    CASE w = "Too Many Requests" -> "too many requests"
      [] w = "Rate Limit" -> "rate limit"
      [] w = "Connection" -> "connection"
      [] OTHER -> w
Lower(msg) == [i \in 1..Len(msg) |-> LowerWord(msg[i])]

\* needle in msg
Contains(msg, needle) == \E i \in 1..Len(msg) : msg[i] = needle

\* the test of line 63
RateLimitHint(e) ==
    Contains(e, "Too Many Requests") \/ Contains(Lower(e), "rate limit")

\* a handler that lets only rate-limit errors through to the retry
HandlerReraisesOnlyRateLimit(e) == RateLimitHint(e)

\* the handler of lines 61-66: does it re-raise e?  Both branches do
HandlerReraises(e) == IF RateLimitHint(e) THEN TRUE ELSE TRUE

\* stopping one attempt late
StopAfterAttemptLate(n) == n >= MAX_ATTEMPTS + 1

\* stopping one attempt early
StopAfterAttemptEarly(n) == n >= MAX_ATTEMPTS - 1

\* tenacity: stop_after_attempt(5)
StopAfterAttempt(n) == n >= MAX_ATTEMPTS

\* the wait without its lower clamp
WaitExponentialNoMin(n) == Min(WAIT_MULTIPLIER * (2 ^ (n - 1)), WAIT_MAX)

\* tenacity: wait_exponential(multiplier=2, min=5, max=120), exp_base 2,
\* after failed attempt number n
WaitExponential(n) ==
    Max(Max(0, WAIT_MIN), Min(WAIT_MULTIPLIER * (2 ^ (n - 1)), WAIT_MAX))

(* ------------------------ aggregation helpers -------------------------- *)
PERIOD == <<"1","y">>
INTERVAL == <<"1","d">>

\* ticker.replace(".", "_")
SafeTicker(t) == [i \in 1..Len(t) |-> IF t[i] = "." THEN "_" ELSE t[i]]

\* f"{safe_ticker}_{args.period}_{args.interval}.csv"
OutName(t) == SafeTicker(t) \o <<"_">> \o PERIOD \o <<"_">> \o INTERVAL
                  \o <<".","c","s","v">>

\* the loop of lines 92-98: one to_csv per non-empty table, in order
RECURSIVE SingleWrites(_)
SingleWrites(tables) ==
    IF tables = <<>> THEN <<>>
    ELSE IF Head(tables) = <<>>
         THEN SingleWrites(Tail(tables))
         ELSE <<[name |-> OutName(Head(tables)[1].Ticker), content |-> Head(tables)]>>
                  \o SingleWrites(Tail(tables))

RECURSIVE SumSeq(_)
SumSeq(xs) == IF xs = <<>> THEN 0 ELSE Head(xs) + SumSeq(Tail(xs))

SeqMin(xs) == CHOOSE m \in {xs[i] : i \in 1..Len(xs)} :
                  \A i \in 1..Len(xs) : m <= xs[i]
SeqMax(xs) == CHOOSE m \in {xs[i] : i \in 1..Len(xs)} :
                  \A i \in 1..Len(xs) : m >= xs[i]

\* the statistics with the population variance (ddof = 0) for std
GroupStatsPopulation(xs) ==
    LET n == Len(xs)
        s == SumSeq(xs)
        sq == SumSeq([i \in 1..n |-> xs[i] * xs[i]])
    IN  [min |-> SeqMin(xs), max |-> SeqMax(xs),
         mean |-> [num |-> s, den |-> n],
         std_sq |-> [nan |-> FALSE, num |-> n * sq - s * s, den |-> n * n]]

\* agg(["min", "max", "mean", "std"]) of one group; mean and the square of
\* std (sample variance, ddof = 1) are kept as exact fractions, and std of
\* a single value is NaN
GroupStats(xs) ==
    LET n == Len(xs)
        s == SumSeq(xs)
        sq == SumSeq([i \in 1..n |-> xs[i] * xs[i]])
    IN  [min |-> SeqMin(xs), max |-> SeqMax(xs),
         mean |-> [num |-> s, den |-> n],
         std_sq |-> IF n = 1
                    THEN [nan |-> TRUE, num |-> 0, den |-> 1]
                    ELSE [nan |-> FALSE, num |-> n * sq - s * s, den |-> n * (n - 1)]]

\* all_df.groupby("Ticker")["Close"].agg(...): one row per ticker of all_df
SummaryStats(all_df) ==
    LET keys == {all_df[i].Ticker : i \in 1..Len(all_df)}
        closes(t) == LET g == SelectSeq(all_df, LAMBDA r : r.Ticker = t)
                     IN  [i \in 1..Len(g) |-> g[i].Close]
    IN  [t \in keys |-> GroupStats(closes(t))]

(* ------------------------------ state ---------------------------------- *)
VARIABLES
    pc,             \* where main is
    batch_size,     \* args.batch_size
    comps,          \* idx.constituents as answered by the provider
    tickers,        \* main's tickers
    batches,        \* main's batches
    stdout,         \* lines printed
    bi,             \* position of the for loop in batches (1-based)
    attempted,      \* batches handed to download_batch so far, in order
    attempt_number, \* tenacity's attempt number of the current batch
    calls,          \* yf.download calls made for the current batch
    failures,       \* how many of them raised
    delays,         \* backoff sleeps of the current batch, in order
    outcome,        \* of download_batch for the current batch
    resp,           \* what yf.download last did
    err,            \* str(e) of the call that just raised, NoError otherwise
    batch_data,     \* what download_batch last returned
    rows,           \* main's rows: the accumulated tables
    errors_log,     \* errors.log, line by line
    pauses,         \* number of throttling sleeps so far
    slept,          \* seconds the latest step slept (0: it did not sleep)
    ticker_csv,     \* to_csv calls of lines 92-98, in order
    all_history_csv,    \* <<>> or <<content>> of all_history.csv
    summary_stats_csv   \* <<>> or <<content>> of summary_stats.csv

vars == <<pc, batch_size, comps, tickers, batches, stdout, bi, attempted,
          attempt_number, calls, failures, delays, outcome, resp, err,
          batch_data, rows, errors_log, pauses, slept, ticker_csv, all_history_csv,
          summary_stats_csv>>

fetchVars == <<attempt_number, calls, failures, delays, outcome, resp, err,
               batch_data>>
planVars == <<batch_size, comps, tickers, batches>>
outVars == <<ticker_csv, all_history_csv, summary_stats_csv>>

Init ==
    /\ pc = "start"
    /\ batch_size \in BatchSizes
    /\ comps = NoAnswer
    /\ tickers = <<>>
    /\ batches = <<>>
    /\ stdout = <<>>
    /\ bi = 1
    /\ attempted = <<>>
    /\ attempt_number = 0
    /\ calls = 0
    /\ failures = 0
    /\ delays = <<>>
    /\ outcome = "none"
    /\ resp = DownloadRaise
    /\ err = NoError
    /\ batch_data = <<>>
    /\ rows = <<>>
    /\ errors_log = <<>>
    /\ pauses = 0
    /\ slept = 0
    /\ ticker_csv = <<>>
    /\ all_history_csv = <<>>
    /\ summary_stats_csv = <<>>

\* main, lines 76-77: tickers = get_index_constituents(...); print(...)
ResolveConstituents ==
    /\ pc = "start"
    /\ \E ans \in ConstituentAnswers :
          /\ comps' = ans
          /\ tickers' = get_index_constituents(ans)
          /\ stdout' = Append(stdout,
                 [msg |-> "Scarico", n |-> Len(get_index_constituents(ans)),
                  size |-> batch_size])
    /\ pc' = "plan"
    /\ slept' = 0
    /\ UNCHANGED <<batch_size, batches, bi, attempted, rows, errors_log, pauses>>
    /\ UNCHANGED <<fetchVars, outVars>>

\* main, lines 79-80 with a non-zero step: the list comprehension
PlanBatches ==
    /\ pc = "plan"
    /\ batch_size # 0
    /\ batches' = Batches(tickers, batch_size)
    /\ comps' = NoAnswer
    /\ pc' = "loop"
    /\ slept' = 0
    /\ UNCHANGED <<batch_size, tickers, stdout, bi, attempted, rows, errors_log, pauses>>
    /\ UNCHANGED <<fetchVars, outVars>>

\* main, line 80 with batch_size = 0: range() raises ValueError, which
\* nothing catches; the process dies with a traceback
PlanRaises ==
    /\ pc = "plan"
    /\ batch_size = 0
    /\ comps' = NoAnswer
    /\ pc' = "crashed"
    /\ slept' = 0
    /\ UNCHANGED <<batch_size, tickers, batches, stdout, bi, attempted, rows,
                   errors_log, pauses>>
    /\ UNCHANGED <<fetchVars, outVars>>

\* main, lines 82-84: the loop takes the next batch and calls download_batch
BeginBatch ==
    /\ pc = "loop"
    /\ bi <= Len(batches)
    /\ attempted' = Append(attempted, batches[bi])
    /\ attempt_number' = 1
    /\ calls' = 0
    /\ failures' = 0
    /\ delays' = <<>>
    /\ outcome' = "pending"
    /\ pc' = "call"
    /\ slept' = 0
    /\ UNCHANGED <<planVars, stdout, bi, resp, err, batch_data, rows, errors_log,
                   pauses>>
    /\ UNCHANGED outVars

\* the failure logged as a batch failure at every attempt
AttemptRaisesLogs ==
    /\ pc = "call"
    /\ resp' = DownloadRaise
    /\ calls' = calls + 1
    /\ failures' = failures + 1
    /\ slept' = 0
    /\ errors_log' = Append(errors_log, ErroreBatch(batches[bi]))
    /\ \E e \in DownloadErrors :
          /\ err' = e
          /\ IF ~HandlerReraises(e)
             THEN /\ outcome' = "returned"
                  /\ pc' = "except"
             ELSE IF StopAfterAttempt(attempt_number)
                  THEN /\ outcome' = "raised"
                       /\ pc' = "except"
                  ELSE /\ outcome' = outcome
                       /\ pc' = "backoff"
    /\ UNCHANGED <<planVars, stdout, bi, attempted, attempt_number, delays,
                   batch_data, rows, pauses>>
    /\ UNCHANGED outVars

\* a failed attempt that had already handed a table to main
AttemptRaisesLeavesTables ==
    /\ pc = "call"
    /\ resp' = DownloadRaise
    /\ calls' = calls + 1
    /\ failures' = failures + 1
    /\ slept' = 0
    /\ rows' = Append(rows, TagTicker(DropNa(F_data), batches[bi][1]))
    /\ \E e \in DownloadErrors :
          /\ err' = e
          /\ IF ~HandlerReraises(e)
             THEN /\ outcome' = "returned"
                  /\ pc' = "except"
             ELSE IF StopAfterAttempt(attempt_number)
                  THEN /\ outcome' = "raised"
                       /\ pc' = "except"
                  ELSE /\ outcome' = outcome
                       /\ pc' = "backoff"
    /\ UNCHANGED <<planVars, stdout, bi, attempted, attempt_number, delays,
                   batch_data, errors_log, pauses>>
    /\ UNCHANGED outVars

\* download_batch, lines 42-43 and 61-66, under the retry decorator of line
\* 40: yf.download raises, the handler re-raises, and tenacity either stops
\* (RetryError reaches main) or goes to sleep before the next attempt.  A
\* handler that did not re-raise would make download_batch return None,
\* on which rows.extend raises TypeError inside main's try
AttemptRaises ==
    /\ pc = "call"
    /\ resp' = DownloadRaise
    /\ calls' = calls + 1
    /\ failures' = failures + 1
    /\ slept' = 0
    /\ \E e \in DownloadErrors :
          /\ err' = e
          /\ IF ~HandlerReraises(e)
             THEN /\ outcome' = "returned"
                  /\ pc' = "except"
             ELSE IF StopAfterAttempt(attempt_number)
                  THEN /\ outcome' = "raised"
                       /\ pc' = "except"
                  ELSE /\ outcome' = outcome
                       /\ pc' = "backoff"
    /\ UNCHANGED <<planVars, stdout, bi, attempted, attempt_number, delays,
                   batch_data, rows, errors_log, pauses>>
    /\ UNCHANGED outVars

\* tenacity between two attempts: sleep(wait), then the next attempt
Backoff ==
    /\ pc = "backoff"
    /\ delays' = Append(delays, WaitExponential(attempt_number))
    /\ attempt_number' = attempt_number + 1
    /\ pc' = "call"
    /\ slept' = WaitExponential(attempt_number)
    /\ err' = NoError
    /\ UNCHANGED <<planVars, stdout, bi, attempted, calls, failures, outcome,
                   resp, batch_data, rows, errors_log, pauses>>
    /\ UNCHANGED outVars

\* download_batch, lines 43-60, and main, line 85: yf.download answers, the
\* tables are extracted (logging the tickers that fail), the list is
\* returned and main extends rows with it
AttemptReturns ==
    /\ pc = "call"
    /\ \E df \in DownloadAnswers(batches[bi]) :
          LET body == DownloadBody(batches[bi], df)
          IN  /\ resp' = df
              /\ batch_data' = body.results
              /\ errors_log' = errors_log \o body.log
              /\ rows' = rows \o body.results
    /\ calls' = calls + 1
    /\ outcome' = "returned"
    /\ pc' = "throttle"
    /\ slept' = 0
    /\ UNCHANGED <<planVars, stdout, bi, attempted, attempt_number, failures,
                   delays, err, pauses>>
    /\ UNCHANGED outVars

\* main without the try of line 83: the RetryError ends the process
BatchFailedAborts ==
    /\ pc = "except"
    /\ pc' = "crashed"
    /\ slept' = 0
    /\ UNCHANGED <<planVars, stdout, bi, attempted, rows, errors_log, pauses>>
    /\ err' = NoError
    /\ UNCHANGED <<attempt_number, calls, failures, delays, outcome, resp,
                   batch_data>>
    /\ UNCHANGED outVars

\* main with the sleep of line 89 inside the try: no pause after a failure
BatchFailedSkipsPause ==
    /\ pc = "except"
    /\ errors_log' = Append(errors_log, ErroreBatch(batches[bi]))
    /\ bi' = bi + 1
    /\ pc' = "loop"
    /\ slept' = 0
    /\ UNCHANGED <<planVars, stdout, attempted, rows, pauses>>
    /\ err' = NoError
    /\ UNCHANGED <<attempt_number, calls, failures, delays, outcome, resp,
                   batch_data>>
    /\ UNCHANGED outVars

\* main, lines 86-88: the batch failed for good; one line in errors.log
BatchFailed ==
    /\ pc = "except"
    /\ errors_log' = Append(errors_log, ErroreBatch(batches[bi]))
    /\ pc' = "throttle"
    /\ slept' = 0
    /\ UNCHANGED <<planVars, stdout, bi, attempted, rows, pauses>>
    /\ err' = NoError
    /\ UNCHANGED <<attempt_number, calls, failures, delays, outcome, resp,
                   batch_data>>
    /\ UNCHANGED outVars

\* main, line 89: time.sleep(random.uniform(1, 3)), then the next iteration
Throttle ==
    /\ pc = "throttle"
    /\ \E d \in THROTTLE_MIN..THROTTLE_MAX : slept' = d
    /\ pauses' = pauses + 1
    /\ bi' = bi + 1
    /\ pc' = "loop"
    /\ UNCHANGED <<planVars, stdout, attempted, rows, errors_log>>
    /\ UNCHANGED <<fetchVars, outVars>>

\* main, lines 92-98: one file per non-empty table
SaveSingles ==
    /\ pc = "loop"
    /\ bi > Len(batches)
    /\ ticker_csv' = ticker_csv \o SingleWrites(rows)
    /\ pc' = "aggregate"
    /\ slept' = 0
    /\ UNCHANGED <<planVars, stdout, bi, attempted, rows, errors_log, pauses,
                   all_history_csv, summary_stats_csv>>
    /\ UNCHANGED fetchVars

\* the aggregation without the test of line 101
AggregateUnguarded ==
    /\ pc = "aggregate"
    /\ all_history_csv' = <<Concat(rows)>>
    /\ summary_stats_csv' = <<SummaryStats(Concat(rows))>>
    /\ pc' = "print"
    /\ slept' = 0
    /\ UNCHANGED <<planVars, stdout, bi, attempted, rows, errors_log, pauses,
                   ticker_csv>>
    /\ UNCHANGED fetchVars

\* main, lines 101-108: the combined file and the statistics, if any table
Aggregate ==
    /\ pc = "aggregate"
    /\ IF rows # <<>>
       THEN /\ all_history_csv' = <<Concat(rows)>>
            /\ summary_stats_csv' = <<SummaryStats(Concat(rows))>>
       ELSE UNCHANGED <<all_history_csv, summary_stats_csv>>
    /\ pc' = "print"
    /\ slept' = 0
    /\ UNCHANGED <<planVars, stdout, bi, attempted, rows, errors_log, pauses,
                   ticker_csv>>
    /\ UNCHANGED fetchVars

\* main, line 110
PrintDone ==
    /\ pc = "print"
    /\ stdout' = Append(stdout, [msg |-> "Fatto", n |-> 0, size |-> 0])
    /\ pc' = "done"
    /\ slept' = 0
    /\ UNCHANGED <<planVars, bi, attempted, rows, errors_log, pauses>>
    /\ UNCHANGED <<fetchVars, outVars>>

Next ==
    \/ ResolveConstituents
    \/ PlanBatches
    \/ PlanRaises
    \/ BeginBatch
    \/ AttemptRaises
    \/ Backoff
    \/ AttemptReturns
    \/ BatchFailed
    \/ Throttle
    \/ SaveSingles
    \/ Aggregate
    \/ PrintDone

Spec == Init /\ [][Next]_vars

\* the interpreter runs the script to its end: no step is postponed forever
FairSpec == Spec /\ WF_vars(Next)

(* ------------- the aggregation on its own, over more price data --------- *)
\* most tickers in a collection handed to the aggregation
MaxStatsTickers == 4

\* --batch-size default
DEFAULT_BATCH_SIZE == 5

\* closing prices the provider may hold for a ticker
ClosesLists == { <<10, 20, 30>>, <<5, 5, 5>>, <<100, 200>>, <<7>> }

\* the provider's frame with these closing prices, one per date
FrameOf(closes) == [i \in 1..Len(closes) |-> [Date |-> i, Close |-> closes[i]]]

\* main after line 98 of a run with the default batch size in which the one
\* batch was answered at once, every ticker with one of the price lists
StatsInit ==
    /\ pc = "aggregate"
    /\ batch_size = DEFAULT_BATCH_SIZE
    /\ comps = NoAnswer
    /\ \E n \in 1..MaxStatsTickers : tickers = SubSeq(FALLBACK, 1, n)
    /\ batches = Batches(tickers, batch_size)
    /\ stdout = <<[msg |-> "Scarico", n |-> Len(tickers), size |-> batch_size]>>
    /\ bi = Len(batches) + 1
    /\ attempted = batches
    /\ attempt_number = 1
    /\ calls = 1
    /\ failures = 0
    /\ delays = <<>>
    /\ outcome = "returned"
    /\ \E cs \in [1..Len(tickers) -> ClosesLists] :
          resp = [kind |-> "multi",
                  frames |-> [i \in 1..Len(tickers) |->
                                 [ok |-> TRUE, frame |-> FrameOf(cs[i])]]]
    /\ err = NoError
    /\ batch_data = DownloadBody(batches[1], resp).results
    /\ rows = batch_data
    /\ errors_log = <<>>
    /\ pauses = Len(batches)
    /\ slept = 0
    /\ ticker_csv = SingleWrites(rows)
    /\ all_history_csv = <<>>
    /\ summary_stats_csv = <<>>

StatsNext ==
    \/ Aggregate
    \/ PrintDone

StatsSpec == StatsInit /\ [][StatsNext]_vars

(* ============================ properties =============================== *)
\* main has computed its batch list
Planned == pc \notin {"start", "plan", "crashed"}

\* the run is inside download_batch or right after it, for batch bi
CurrentBatch == batches[bi]

Indices(n) == [i \in 1..n |-> i]

\* C1: for a batch size B > 0 the batches, concatenated in order, are the
\* ticker list; every batch but the last has exactly B tickers, every batch
\* has between 1 and B, and an empty ticker list gives no batch.
C1_BatchesPartitionTickers ==
    (Planned /\ batch_size > 0) =>
        /\ Concat(batches) = tickers
        /\ \A k \in 1..Len(batches) :
              /\ Len(batches[k]) >= 1
              /\ Len(batches[k]) <= batch_size
              /\ k < Len(batches) => Len(batches[k]) = batch_size
        /\ (tickers = <<>> => batches = <<>>)

\* C1 witness: several batches, the last one shorter than the others
C1_Witness ==
    /\ Planned
    /\ batch_size > 0
    /\ Len(batches) >= 2
    /\ Len(batches[Len(batches)]) < batch_size

\* the run is over: every batch was handed to download_batch once, in
\* order, and the last line was printed
RunCompleted ==
    /\ pc = "done"
    /\ attempted = batches
    /\ bi = Len(batches) + 1
    /\ stdout # <<>>
    /\ stdout[Len(stdout)].msg = "Fatto"

\* C2: once the batch list exists (the batch size is not 0, for which range
\* raises before any batch), whatever the provider does the run ends with
\* every batch attempted exactly once, in order, after the aggregation step
\* and the final print; a failed batch does not end the run.
C2_RunAlwaysCompletes ==
    /\ (batch_size # 0) ~> RunCompleted
    /\ [](pc = "crashed" => batch_size = 0)
    /\ [](Planned => attempted = SubSeq(batches, 1, Len(attempted)))

\* C2 witness: a finished run whose first batch failed for good and whose
\* last batch was still fetched
C2_Witness ==
    /\ RunCompleted
    /\ Len(batches) >= 2
    /\ \E i \in 1..Len(errors_log) : errors_log[i] = ErroreBatch(batches[1])
    /\ rows # <<>>
    /\ outcome = "returned"

\* C3: a batch for which every provider call raises gets exactly 5 calls and
\* then a failure reaches main: download_batch gives up only after the 5th
\* call, never calls a 6th time, and never returns a list after a call that
\* raised last.
C3_FiveCallsThenFailure ==
    /\ calls <= 5
    /\ failures <= calls
    /\ (outcome = "raised" => calls = 5 /\ failures = 5)
    /\ (pc = "except" => outcome = "raised")
    /\ (failures = 5 => outcome = "raised" /\ pc \in {"except", "throttle", "loop", "aggregate", "print", "done"})
    /\ (pc = "backoff" => failures = calls /\ calls < 5)
    /\ (outcome = "returned" => resp.kind # "raise" /\ failures = calls - 1)

\* C3 witness: the fifth call has raised and main is in its except clause
C3_Witness ==
    /\ pc = "except"
    /\ calls = 5
    /\ failures = 5
    /\ resp.kind = "raise"

\* C4: every backoff delay is between 5 and 120, the delays of a batch do
\* not decrease, the i-th is 2^i clamped to [5,120], there is one delay per
\* failed attempt that is followed by another attempt (4 for 5 failures),
\* and neither the last attempt nor a successful one is followed by one.
C4_BackoffDelays ==
    /\ \A i \in 1..Len(delays) :
          /\ delays[i] >= 5
          /\ delays[i] <= 120
          /\ delays[i] = (IF 2 ^ i < 5 THEN 5 ELSE IF 2 ^ i > 120 THEN 120 ELSE 2 ^ i)
          /\ i > 1 => delays[i - 1] <= delays[i]
    /\ Len(delays) <= 4
    /\ (pc = "call" => Len(delays) = failures /\ Len(delays) = calls)
    /\ (pc = "backoff" => Len(delays) = failures - 1 /\ slept = 0)
    /\ (outcome = "raised" => Len(delays) = 4 /\ failures = 5)
    /\ (outcome = "returned" => Len(delays) = failures /\ Len(delays) = calls - 1)
    /\ (pc \in {"except", "throttle"} => slept = 0)
    /\ (pc = "call" /\ calls > 0 => slept = delays[Len(delays)])

\* C4 witness: five failed attempts with four delays between them
C4_Witness ==
    /\ pc = "except"
    /\ failures = 5
    /\ delays = <<5, 5, 8, 16>>

\* C5: get_index_constituents returns a non-empty list whatever the
\* provider does (raise, None, no Symbol column, empty or all-missing
\* Symbol column).
C5_ConstituentsNeverEmpty ==
    pc = "plan" => tickers # <<>>

\* C6: a batch size <= 0 (0 or negative) makes batch planning fail: the run
\* stops there, no batch is fetched and main does not go on as if there were
\* no batches.
C6_NonPositiveBatchSizeFails ==
    (batch_size <= 0 /\ pc \notin {"start", "plan"}) =>
        /\ pc = "crashed"
        /\ attempted = <<>>

\* positions of the batch whose extraction raised / did not raise
BadIdx(df) == SelectSeq(Indices(Len(df.frames)), LAMBDA i : ~df.frames[i].ok)
GoodIdx(df) == SelectSeq(Indices(Len(df.frames)), LAMBDA i : df.frames[i].ok)

\* a frame with at least one row free of missing cells
HasUsableRows(frame) == \E i \in 1..Len(frame) : frame[i].Close # NaNClose

\* the rows of a frame that dropna keeps, tagged with t
KeptRows(frame, t) ==
    LET keep == SelectSeq(Indices(Len(frame)), LAMBDA i : frame[i].Close # NaNClose)
    IN  [k \in 1..Len(keep) |->
            [Date |-> frame[keep[k]].Date, Close |-> frame[keep[k]].Close, Ticker |-> t]]

\* the step in which download_batch returns to main
Returns == pc = "call" /\ pc' = "throttle"

C7_Step ==
    (Returns /\ resp'.kind = "multi") =>
        LET bad == BadIdx(resp')
            good == GoodIdx(resp')
        IN  /\ errors_log' = errors_log \o
                   [k \in 1..Len(bad) |-> ErroreTicker(CurrentBatch[bad[k]])]
            /\ Len(batch_data') = Len(good)
            /\ \A k \in 1..Len(good) :
                  batch_data'[k] = KeptRows(resp'.frames[good[k]].frame, CurrentBatch[good[k]])
            /\ rows' = rows \o batch_data'
            /\ outcome' = "returned"
            /\ calls' = calls + 1

\* C7: in a per-ticker keyed answer, each ticker whose extraction raises
\* gets exactly one 'Errore {ticker}' line appended and no table; the other
\* tickers give their tables in batch order; the call returns, and no
\* further attempt is made for the batch.
C7_TickerErrorRecoveredLocally ==
    /\ [][C7_Step]_vars
    /\ [][(outcome = "returned" /\ outcome' = "returned") =>
              (calls' = calls /\ pc' \notin {"call", "backoff", "except"})]_vars

\* C7 witness: a returned batch in which one ticker failed to extract and
\* a later ticker gave a table with rows
C7_Witness ==
    /\ pc = "throttle"
    /\ outcome = "returned"
    /\ resp.kind = "multi"
    /\ Len(CurrentBatch) >= 2
    /\ ~resp.frames[1].ok
    /\ resp.frames[2].ok
    /\ batch_data = <<KeptRows(F_data, CurrentBatch[2])>>
    /\ errors_log # <<>>
    /\ errors_log[Len(errors_log)] = ErroreTicker(CurrentBatch[1])

\* positions of the tickers whose frame download_batch turns into a table
TableIdx(df) == IF df.kind = "multi" THEN GoodIdx(df) ELSE <<1>>

\* C8 as stated: the list returned has one table per ticker with usable
\* data; a ticker left with no row gives no table and is in the error log.
C8_OnlyUsableTablesReturned ==
    (pc = "throttle" /\ outcome = "returned") =>
        LET idx == TableIdx(resp)
            usable == SelectSeq(idx, LAMBDA i : HasUsableRows(resp.frames[i].frame))
        IN  /\ Len(batch_data) = Len(usable)
            /\ \A k \in 1..Len(batch_data) : batch_data[k] # <<>>
            /\ \A i \in 1..Len(CurrentBatch) :
                  (i \in {idx[k] : k \in 1..Len(idx)} /\ ~HasUsableRows(resp.frames[i].frame))
                      => \E j \in 1..Len(errors_log) :
                             errors_log[j] = ErroreTicker(CurrentBatch[i])

C8_Step ==
    Returns =>
        LET idx == TableIdx(resp')
            nbad == Len(CurrentBatch) - Len(idx)
        IN  /\ Len(batch_data') = Len(idx)
            /\ \A k \in 1..Len(idx) :
                  LET frame == resp'.frames[idx[k]].frame
                  IN  /\ ~HasUsableRows(frame) => batch_data'[k] = <<>>
                      /\ HasUsableRows(frame) =>
                            /\ batch_data'[k] # <<>>
                            /\ \A r \in 1..Len(batch_data'[k]) :
                                  batch_data'[k][r].Ticker = CurrentBatch[idx[k]]
            /\ Len(errors_log') = Len(errors_log) + nbad
            /\ SubSeq(errors_log', 1, Len(errors_log)) = errors_log
            /\ \A j \in (Len(errors_log) + 1)..Len(errors_log') :
                  \E i \in 1..Len(CurrentBatch) :
                      /\ resp'.kind = "multi"
                      /\ ~resp'.frames[i].ok
                      /\ errors_log'[j] = ErroreTicker(CurrentBatch[i])
            /\ outcome' = "returned"

\* C8 (amended): a successful download_batch call returns one table per
\* ticker whose extraction did not raise, in batch order; a ticker left
\* with no row after the missing rows are dropped gives an empty table in
\* that list and no line in the error log; only the tickers whose
\* extraction raised are logged; the batch does not fail in either case.
C8_OneTablePerExtractedTicker ==
    [][C8_Step]_vars

\* C8 witness: a returned batch whose first ticker had only missing rows
\* (an empty table, nothing logged) and whose second had data
C8_Witness ==
    /\ pc = "throttle"
    /\ outcome = "returned"
    /\ Len(CurrentBatch) >= 2
    /\ resp.frames[1] = [ok |-> TRUE, frame |-> F_missing]
    /\ resp.frames[2] = [ok |-> TRUE, frame |-> F_data]
    /\ Len(batch_data) = 2
    /\ batch_data[1] = <<>>
    /\ batch_data[2] # <<>>
    /\ errors_log = <<>>

\* the non-empty tables of the collection, in order
NonEmptyTables == SelectSeq(rows, LAMBDA t : t # <<>>)

\* C9: with an empty collection the aggregation writes no file at all and
\* does not raise; with a non-empty one it writes the combined file and the
\* summary file, and one per-ticker file for each non-empty table and for
\* no other.
C9_AggregationOutputs ==
    /\ (pc \in {"aggregate", "print", "done"} =>
           /\ Len(ticker_csv) = Len(NonEmptyTables)
           /\ \A k \in 1..Len(ticker_csv) :
                 /\ ticker_csv[k].content = NonEmptyTables[k]
                 /\ ticker_csv[k].name = OutName(NonEmptyTables[k][1].Ticker))
    /\ (pc \in {"print", "done"} =>
           /\ (rows = <<>> =>
                  /\ ticker_csv = <<>>
                  /\ all_history_csv = <<>>
                  /\ summary_stats_csv = <<>>)
           /\ (rows # <<>> =>
                  /\ Len(all_history_csv) = 1
                  /\ Len(summary_stats_csv) = 1))
    /\ (pc \notin {"print", "done"} =>
           all_history_csv = <<>> /\ summary_stats_csv = <<>>)
    /\ (pc \notin {"aggregate", "print", "done"} => ticker_csv = <<>>)
    /\ (pc = "crashed" => batch_size = 0 /\ attempted = <<>>)

\* C9 witness: the run is over with an empty table and a table with rows
\* in the collection: one per-ticker file, the combined and the summary file
C9_Witness ==
    /\ pc = "done"
    /\ \E i \in 1..Len(rows) : rows[i] = <<>>
    /\ Len(NonEmptyTables) = 1
    /\ Len(ticker_csv) = 1
    /\ Len(all_history_csv) = 1
    /\ Len(summary_stats_csv) = 1

\* C10: each batch attempt, returned or failed, the last one included, is
\* followed by exactly one throttling pause of 1 to 3 seconds; batches go
\* one at a time in order, and a batch is only started once the previous
\* one has finished and its pause is over.
C10_OnePausePerBatch ==
    /\ [](Planned => /\ pauses = bi - 1
                     /\ attempted = SubSeq(batches, 1, Len(attempted))
                     /\ Len(attempted) = (IF pc \in {"call", "backoff", "except", "throttle"}
                                          THEN bi ELSE bi - 1)
                     /\ (pc \in {"call", "backoff"} => outcome = "pending")
                     /\ (pc \in {"aggregate", "print", "done"} => pauses = Len(batches)))
    /\ [][pauses' # pauses =>
              /\ pauses' = pauses + 1
              /\ pc = "throttle"
              /\ outcome \in {"returned", "raised"}
              /\ slept' \in 1..3]_vars
    /\ [][attempted' # attempted =>
              /\ pauses = Len(attempted)
              /\ calls' = 0
              /\ (attempted # <<>> => outcome \in {"returned", "raised"} /\ slept \in 1..3)]_vars
    /\ [][calls' # calls => (calls' = 0 \/ (pc = "call" /\ pauses = bi - 1 /\ pauses' = pauses))]_vars

\* C10 witness: a finished run of two batches, the first failed and the
\* second returned, with two pauses
C10_Witness ==
    /\ pc = "done"
    /\ Len(batches) = 2
    /\ pauses = 2
    /\ outcome = "returned"
    /\ \E i \in 1..Len(errors_log) : errors_log[i] = ErroreBatch(batches[1])
\* position of a ticker in main's ticker list
TickerPos(t) == CHOOSE i \in 1..Len(tickers) : tickers[i] = t

\* C11: the combined table holds every row of every table of the run, and
\* nothing else, ordered by the ticker's place in the ticker list (batch
\* order, then order within the batch) and, for one ticker, by date,
\* whichever batches failed or were retried.
C11_CombinedTableOrder ==
    (pc \in {"print", "done"} /\ rows # <<>>) =>
        LET all_df == all_history_csv[1]
        IN  /\ Len(all_df) = SumSeq([k \in 1..Len(rows) |-> Len(rows[k])])
            /\ \A k \in 1..Len(rows) : \A r \in 1..Len(rows[k]) :
                  \E i \in 1..Len(all_df) : all_df[i] = rows[k][r]
            /\ \A i \in 1..Len(all_df) :
                  \E p \in 1..Len(tickers) : tickers[p] = all_df[i].Ticker
            /\ \A i, j \in 1..Len(all_df) :
                  i < j =>
                     /\ TickerPos(all_df[i].Ticker) <= TickerPos(all_df[j].Ticker)
                     /\ (all_df[i].Ticker = all_df[j].Ticker
                            => all_df[i].Date < all_df[j].Date)

\* C11 witness: the first batch failed for good, a later batch was fetched
\* after a retry, and the combined table holds rows of two tickers
C11_Witness ==
    /\ pc = "done"
    /\ Len(batches) >= 2
    /\ \E i \in 1..Len(errors_log) : errors_log[i] = ErroreBatch(batches[1])
    /\ failures > 0
    /\ outcome = "returned"
    /\ Len(all_history_csv) = 1
    /\ Cardinality({all_history_csv[1][i].Ticker : i \in 1..Len(all_history_csv[1])}) >= 2
\* the run is over, every ticker of a non-empty list has a table with rows
\* and nothing was logged: the provider gave valid data for every ticker
AllTickersServed ==
    /\ pc = "done"
    /\ Len(tickers) >= 1
    /\ errors_log = <<>>
    /\ Len(rows) = Len(tickers)
    /\ \A k \in 1..Len(rows) : rows[k] # <<>>

\* the per-ticker files on disk after the run: one per name written
TickerFilesOnDisk == {ticker_csv[k].name : k \in 1..Len(ticker_csv)}

\* C12: when the provider gives valid data for each of the n distinct
\* tickers and nothing fails, the run leaves n per-ticker files (a distinct
\* file for each ticker), one combined file and one summary file of n rows,
\* and an empty error log.
C12_OneFilePerTicker ==
    AllTickersServed =>
        /\ Cardinality(TickerFilesOnDisk) = Len(tickers)
        /\ Len(all_history_csv) = 1
        /\ Len(summary_stats_csv) = 1
        /\ Cardinality(DOMAIN summary_stats_csv[1]) = Len(tickers)
        /\ errors_log = <<>>
\* the provider gave no usable constituents table
NoSymbolColumn == comps.kind \in {"raise", "None"} \/ ~comps.hasSymbol

\* first position of x in col
FirstIdx(col, x) ==
    CHOOSE i \in 1..Len(col) : col[i] = x /\ \A j \in 1..(i - 1) : col[j] # x

\* C14: get_index_constituents returns the six fallback tickers exactly when
\* the provider raises, answers with something that is not a table, or with
\* a table without a Symbol column; otherwise it returns the symbols of the
\* column that are not missing, each once, in order of first occurrence.
C14_FallbackOrUniqueSymbols ==
    pc = "plan" =>
        /\ (NoSymbolColumn <=> tickers = FALLBACK)
        /\ (NoSymbolColumn => Len(tickers) = 6)
        /\ (~NoSymbolColumn =>
               LET col == comps.Symbol
               IN  /\ \A i \in 1..Len(tickers) :
                         /\ tickers[i] # NaN
                         /\ \E j \in 1..Len(col) : col[j] = tickers[i]
                   /\ \A j \in 1..Len(col) :
                         col[j] # NaN => \E i \in 1..Len(tickers) : tickers[i] = col[j]
                   /\ \A i, j \in 1..Len(tickers) :
                         i < j => /\ tickers[i] # tickers[j]
                                  /\ FirstIdx(col, tickers[i]) < FirstIdx(col, tickers[j]))
        /\ \A i, j \in 1..Len(tickers) : tickers[i] = tickers[j] => i = j

\* C14 witness: a Symbol column with a repeated symbol and another symbol
\* after its first occurrence
C14_Witness ==
    /\ pc = "plan"
    /\ ~NoSymbolColumn
    /\ Len(comps.Symbol) = 3
    /\ comps.Symbol[1] = comps.Symbol[3]
    /\ comps.Symbol[1] # NaN
    /\ comps.Symbol[2] \notin {NaN, comps.Symbol[1]}
    /\ tickers = <<comps.Symbol[1], comps.Symbol[2]>>
\* the step in which a provider call raises
Raises == pc = "call" /\ pc' \in {"backoff", "except"}

C17_Step ==
    /\ (Returns =>
           /\ calls' = failures + 1
           /\ calls' = attempt_number
           /\ failures' = failures
           /\ batch_data' = DownloadBody(CurrentBatch, resp').results
           /\ rows' = rows \o batch_data')
    /\ (Raises => rows' = rows /\ batch_data' = batch_data /\ calls' = calls + 1)
    /\ (outcome = "returned" /\ outcome' = "returned" => calls' = calls)
    /\ (calls' # calls => calls' = 0 \/ (pc = "call" /\ calls' = calls + 1))

\* C17: when the calls of a batch raise on attempts 1..k-1 and attempt k
\* answers, download_batch has made exactly k provider calls, returns the
\* tables of attempt k alone and calls no more for that batch; a finished
\* batch has had between 1 and 5 calls.
C17_CallsUntilFirstAnswer ==
    /\ [][C17_Step]_vars
    /\ [](outcome = "returned" => calls = failures + 1 /\ calls >= 1 /\ calls <= 5)
    /\ [](outcome = "raised" => calls = 5)
    /\ [](pc \in {"call", "backoff"} => calls = failures /\ calls <= 4)

\* C17 witness: two calls raised, the third answered with a table
C17_Witness ==
    /\ pc = "throttle"
    /\ outcome = "returned"
    /\ failures = 2
    /\ calls = 3
    /\ delays = <<5, 5>>
    /\ batch_data # <<>>
    /\ batch_data[1] # <<>>

\* the backoff delay after failed attempt n, written out
ClampedDelay(n) == IF 2 ^ n < 5 THEN 5 ELSE IF 2 ^ n > 120 THEN 120 ELSE 2 ^ n

C19_Step ==
    /\ (Raises =>
           /\ err' \in DownloadErrors
           /\ calls' = calls + 1
           /\ failures' = failures + 1
           /\ attempt_number' = attempt_number
           /\ delays' = delays
           /\ rows' = rows
           /\ errors_log' = errors_log
           /\ pc' = (IF attempt_number < 5 THEN "backoff" ELSE "except")
           /\ outcome' = (IF attempt_number < 5 THEN "pending" ELSE "raised"))
    /\ (pc = "backoff" =>
           /\ delays' = Append(delays, ClampedDelay(attempt_number))
           /\ attempt_number' = attempt_number + 1
           /\ pc' = "call")
    /\ (pc = "except" =>
           /\ errors_log' = Append(errors_log, ErroreBatch(CurrentBatch))
           /\ rows' = rows
           /\ pc' = "throttle")

\* C19: an error raised by the provider request is retried in the same way
\* whatever its message: the number of attempts, the delays and the final
\* outcome are fixed by the attempt number alone, whether or not the
\* message mentions 'Too Many Requests' or 'rate limit'.
C19_AllErrorsRetriedAlike ==
    /\ [][C19_Step]_vars
    /\ [](pc \in {"backoff", "except"} <=> err # NoError)
    /\ [](pc = "except" => calls = 5 /\ delays = <<5, 5, 8, 16>> /\ outcome = "raised")

\* C19 witness: five attempts were made for a batch whose last error does
\* not look like a rate limit
C19_Witness ==
    /\ pc = "except"
    /\ err = ERR_OTHER
    /\ ~RateLimitHint(err)
    /\ calls = 5
    /\ delays = <<5, 5, 8, 16>>
IsPrefix(s, t) == Len(s) <= Len(t) /\ SubSeq(t, 1, Len(s)) = s

\* the 'Errore batch' lines of a log
BatchLines(log) == SelectSeq(log, LAMBDA l : l.kind = "Errore batch")

C15_Step ==
    /\ IsPrefix(errors_log, errors_log')
    /\ IsPrefix(rows, rows')
    /\ (pc = "except" =>
           /\ errors_log' = Append(errors_log, ErroreBatch(CurrentBatch))
           /\ rows' = rows)
    /\ (Raises => errors_log' = errors_log /\ rows' = rows)
    /\ (BatchLines(errors_log') # BatchLines(errors_log) =>
           /\ pc = "except"
           /\ outcome = "raised"
           /\ failures = 5
           /\ Len(BatchLines(errors_log')) = Len(BatchLines(errors_log)) + 1)

\* C15: a batch whose retries are exhausted gets exactly one 'Errore batch'
\* line, written after the last attempt and not at each attempt, and adds
\* nothing to the collection; all along the run the error log and the
\* collection only grow at their end.
C15_OneLinePerFailedBatch ==
    /\ [][C15_Step]_vars
    /\ [](\A k \in 1..Len(batches) :
             Len(SelectSeq(errors_log, LAMBDA l : l = ErroreBatch(batches[k]))) <= 1)
    /\ [](Planned =>
             \A i \in 1..Len(BatchLines(errors_log)) :
                 \E k \in 1..Len(attempted) :
                     BatchLines(errors_log)[i] = ErroreBatch(attempted[k]))
    /\ []((pc = "throttle" /\ outcome = "raised") =>
             errors_log[Len(errors_log)] = ErroreBatch(CurrentBatch))

\* C15 witness: the second batch has just failed for good after the first
\* gave tables and a ticker error: its line is the last of the log
C15_Witness ==
    /\ pc = "throttle"
    /\ outcome = "raised"
    /\ bi = 2
    /\ rows # <<>>
    /\ Len(errors_log) = 2
    /\ errors_log[1].kind = "Errore"
    /\ errors_log[2] = ErroreBatch(CurrentBatch)

C16_Step ==
    (Returns /\ resp'.kind = "flat") =>
        /\ Len(CurrentBatch) = 1
        /\ Len(resp'.frames) = 1
        /\ batch_data' = <<KeptRows(resp'.frames[1].frame, CurrentBatch[1])>>
        /\ rows' = Append(rows, KeptRows(resp'.frames[1].frame, CurrentBatch[1]))
        /\ errors_log' = errors_log

TableTags == [k \in 1..Len(rows) |-> {rows[k][r].Ticker : r \in 1..Len(rows[k])}]

\* C18: in every state each table of the collection is tagged with one
\* ticker of the ticker list, no ticker tags two tables, and the collection
\* has at most as many tables as there are tickers; attempts that failed
\* and were retried have left nothing in it.
C18_TablesTaggedOncePerTicker ==
    /\ Len(rows) <= Len(tickers)
    /\ \A k \in 1..Len(rows) :
          /\ Cardinality(TableTags[k]) <= 1
          /\ \A t \in TableTags[k] : \E p \in 1..Len(tickers) : tickers[p] = t
    /\ \A k, l \in 1..Len(rows) :
          (k # l => TableTags[k] \cap TableTags[l] = {})
    /\ (pc \in {"call", "backoff", "except"} =>
           \A k \in 1..Len(rows) : \A t \in TableTags[k] :
               \A i \in 1..Len(CurrentBatch) : CurrentBatch[i] # t)

\* C18 witness: a batch was fetched at its second attempt and both of its
\* tickers have their one table in the collection
C18_Witness ==
    /\ pc = "throttle"
    /\ outcome = "returned"
    /\ failures >= 1
    /\ Len(rows) >= 2
    /\ \A k \in 1..Len(rows) : Cardinality(TableTags[k]) = 1
\* the closing prices of ticker t in the collection
ClosesOf(t) ==
    LET tbl == rows[CHOOSE k \in 1..Len(rows) : rows[k] # <<>> /\ rows[k][1].Ticker = t]
    IN  [i \in 1..Len(tbl) |-> tbl[i].Close]

\* st is the summary row (min, max, mean, std) with std given by its square
IsRow(st, mn, mx, mean, std_sq) ==
    /\ st.min = mn
    /\ st.max = mx
    /\ st.mean.num = mean * st.mean.den
    /\ ~st.std_sq.nan
    /\ st.std_sq.num = std_sq * st.std_sq.den

\* C13: the summary row of a ticker is min, max, mean and the sample
\* standard deviation (N-1 denominator) of its closing prices: (10,30,20,10)
\* for [10,20,30], (5,5,5,0) for [5,5,5], min 100, max 200, mean 150 for
\* [100,200]; with one record the deviation is NaN and nothing fails.  The
\* deviation is compared through its square (10 as 100).
C13_SummaryRows ==
    /\ pc # "crashed"
    /\ (pc \in {"print", "done"} =>
           /\ Len(summary_stats_csv) = 1
           /\ DOMAIN summary_stats_csv[1] = {tickers[i] : i \in 1..Len(tickers)}
           /\ \A t \in DOMAIN summary_stats_csv[1] :
                 LET st == summary_stats_csv[1][t]
                     xs == ClosesOf(t)
                     N == Len(xs)
                     S == SumSeq(xs)
                 IN  /\ (xs = <<10, 20, 30>> => IsRow(st, 10, 30, 20, 100))
                     /\ (xs = <<5, 5, 5>> => IsRow(st, 5, 5, 5, 0))
                     /\ (xs = <<100, 200>> => IsRow(st, 100, 200, 150, 5000))
                     /\ (\E i \in 1..N : xs[i] = st.min)
                     /\ (\E i \in 1..N : xs[i] = st.max)
                     /\ (\A i \in 1..N : st.min <= xs[i] /\ xs[i] <= st.max)
                     /\ st.mean.num * N = S * st.mean.den
                     /\ (N = 1 <=> st.std_sq.nan)
                     /\ (N > 1 =>
                            st.std_sq.num * N * N * (N - 1) =
                               st.std_sq.den *
                                  SumSeq([i \in 1..N |-> (N * xs[i] - S) * (N * xs[i] - S)])))

\* C13 witness: the summary was written for the three price lists of the
\* example and for a ticker with a single record
C13_Witness ==
    /\ pc = "done"
    /\ Len(rows) = 4
    /\ ClosesOf(tickers[1]) = <<10, 20, 30>>
    /\ ClosesOf(tickers[2]) = <<5, 5, 5>>
    /\ ClosesOf(tickers[3]) = <<100, 200>>
    /\ ClosesOf(tickers[4]) = <<7>>
    /\ summary_stats_csv[1][tickers[4]].std_sq.nan
====
